---- MODULE Spec2Model ----
(***************************************************************************)
(* State-machine model of the leafy-ui components:                         *)
(*   - LeafCarousel (the variant with canOverflow / rafRunning),           *)
(*     packages/core/src/components/leaf-carousel.ts lines 349-726;        *)
(*   - ProductImageSlider (wrapping variant and clamping variant).         *)
(*                                                                         *)
(* Numbers.  JavaScript numbers are modelled in fixed point.               *)
(*   Positions (current, target, startTarget, maxScroll, idleIndex, rel)   *)
(*   are integers counting 1/Scale of a slide, so that settleEpsilon       *)
(*   (0.0015) is exactly 3 units.  Widths (clientWidth, itemWidth, gap,    *)
(*   slideWidth, pointer x) count 1/Px of a CSS pixel, so that the 0.5 px  *)
(*   of the overflow test is exactly 1 unit.  Transforms (lx) are the      *)
(*   product of a position and a width.  A product or quotient that is not *)
(*   representable is rounded to the nearest unit (RoundDiv), as IEEE      *)
(*   arithmetic rounds to the nearest double.                              *)
(* Time.  performance.now()/lastTime are not modelled; a frame takes as    *)
(*   its input the blend factor t = 1 - exp(-dt/lerpFactor) of damp(),     *)
(*   drawn from TNums/TDen (0 for dt = 0, TDen for a dt so large that      *)
(*   exp underflows).                                                      *)
(***************************************************************************)
EXTENDS Integers, Sequences, FiniteSets, TLC

(* ------------------------------------------------------------------ *)
(* Number representation                                               *)
(* ------------------------------------------------------------------ *)
Scale == 2000
Px == 2
settleEpsilon == 3
snapStrengthNum == 4
snapStrengthDen == 25
dragGainNum == 37
dragGainDen == 20
TDen == 16

(* ------------------------------------------------------------------ *)
(* Bounds of the model                                                 *)
(* ------------------------------------------------------------------ *)
MaxSlides == 3
MaxPos == 3
MaxOps == 3

Abs(x) == IF x < 0 THEN -x ELSE x
Min(a, b) == IF a < b THEN a ELSE b
Max(a, b) == IF a > b THEN a ELSE b

\* a / b rounded to the nearest integer (b > 0)
RoundDiv(a, b) == IF a >= 0 THEN (2 * a + b) \div (2 * b)
                            ELSE -((2 * (-a) + b) \div (2 * b))

\* Math.round on a position: floor(x + 0.5), ties go up
MathRound(x) == ((x + Scale \div 2) \div Scale) * Scale

IsInteger(x) == x % Scale = 0

\* inputs of the environment
TNums == {0, 15, 16}
ClientWidths == {0, 400}
PointerXs == {200, 260}
SlideIdx == 0 .. (MaxSlides - 1)
None == -1000000

VARIABLES
  \* LeafCarousel: configuration properties
  infinite, snap, columns, slideWidth, gap, preloadItems, rectWidth,
  \* LeafCarousel: host / DOM
  connected, hasUpdated, slideCount, clientWidth, listeners, resizeObs,
  lx, rel, emitted,
  \* LeafCarousel: fields
  current, target, itemWidth, maxScroll, dragging, startX, startTarget,
  rafRunning, rafLive, strayFrames, visibleItems, canOverflow,
  lastAppliedX, idleIndex,
  \* ProductImageSlider: properties, fields, DOM and browser
  variant, zoom, zoomBtn,
  images, index, sliderStartX, dragX, isDragging, tapCandidate,
  isZoomed, zoomHistoryPushed, zoomed, fullscreen,
  zoomEntries, pendingBack, dispatched, detail,
  \* which element the run is about, and history
  tagName, lastOp, lastArg, run, opsLeft

VARIABLES
  \* TypeWriterEl: properties
  textAttr, twLoop, inview, delay,
  \* TypeWriterEl: fields, timers and observer
  twConnected, inited, full, display, playing, pos, dir,
  timer, strayTicks, startTimer, io,
  \* TypeWriterEl: the last command that started or interrupted the typing
  lastControl,
  \* ProductImageSlider: the trackslimit property and the track range that
  \* render() computed last
  trackslimit, rangeStart, rangeEnd,
  \* on-view: options and page, module state, observers and elements
  once, custom, observer, observed, elementObservers, animated, frames

cfgVars == <<infinite, snap, columns, slideWidth, gap, preloadItems,
             rectWidth>>
domVars == <<connected, hasUpdated, slideCount, clientWidth, listeners,
             resizeObs, lx, rel, emitted>>
fieldVars == <<current, target, itemWidth, maxScroll, dragging, startX,
               startTarget, rafRunning, rafLive, strayFrames, visibleItems,
               canOverflow, lastAppliedX, idleIndex>>
carouselVars == <<cfgVars, domVars, fieldVars>>
sliderCfgVars == <<variant, zoom, zoomBtn>>
sliderVars == <<sliderCfgVars, images, index, sliderStartX, dragX, isDragging,
                tapCandidate, isZoomed, zoomHistoryPushed, zoomed, fullscreen,
                zoomEntries, pendingBack, dispatched, detail>>
histVars == <<tagName, lastOp, lastArg, run, opsLeft>>
twCfgVars == <<textAttr, twLoop, inview, delay>>
twVars == <<twCfgVars, twConnected, inited, full, display, playing, pos, dir,
            timer, strayTicks, startTimer, io, lastControl>>
trackVars == <<trackslimit, rangeStart, rangeEnd>>
onViewCfgVars == <<once, custom>>
onViewVars == <<onViewCfgVars, observer, observed, elementObservers, animated,
                frames>>
otherVars == <<twVars, trackVars, onViewVars>>
vars == <<carouselVars, sliderVars, histVars, otherVars>>

(* ------------------------------------------------------------------ *)
(* LeafCarousel: the instance as a record, so that a handler's calls   *)
(* compose (measure, then ensureLoopRunning, ...)                      *)
(* ------------------------------------------------------------------ *)
Self ==
  [connected |-> connected, hasUpdated |-> hasUpdated,
   slideCount |-> slideCount, clientWidth |-> clientWidth,
   listeners |-> listeners, resizeObs |-> resizeObs, lx |-> lx, rel |-> rel,
   emitted |-> emitted,
   current |-> current, target |-> target, itemWidth |-> itemWidth,
   maxScroll |-> maxScroll, dragging |-> dragging, startX |-> startX,
   startTarget |-> startTarget, rafRunning |-> rafRunning,
   rafLive |-> rafLive, strayFrames |-> strayFrames,
   visibleItems |-> visibleItems, canOverflow |-> canOverflow,
   lastAppliedX |-> lastAppliedX, idleIndex |-> idleIndex]

Commit(s) ==
  /\ connected' = s.connected /\ hasUpdated' = s.hasUpdated
  /\ slideCount' = s.slideCount /\ clientWidth' = s.clientWidth
  /\ listeners' = s.listeners /\ resizeObs' = s.resizeObs
  /\ lx' = s.lx /\ rel' = s.rel /\ emitted' = s.emitted
  /\ current' = s.current /\ target' = s.target
  /\ itemWidth' = s.itemWidth /\ maxScroll' = s.maxScroll
  /\ dragging' = s.dragging /\ startX' = s.startX
  /\ startTarget' = s.startTarget /\ rafRunning' = s.rafRunning
  /\ rafLive' = s.rafLive /\ strayFrames' = s.strayFrames
  /\ visibleItems' = s.visibleItems /\ canOverflow' = s.canOverflow
  /\ lastAppliedX' = s.lastAppliedX /\ idleIndex' = s.idleIndex

damp_TwiceT(a, b, tn) == a + RoundDiv((b - a) * 2 * tn, TDen)

\* a + (b - a) * t with t = tn / TDen in [0, 1]
damp(a, b, tn) == a + RoundDiv((b - a) * tn, TDen)

shouldWrap(s) == infinite /\ s.canOverflow

clamp(x, lo) == Min(0, Max(lo, x))

measure_ZeroKeepsOverflow(s) ==
  LET n == s.slideCount
      hostW == IF s.clientWidth = 0 THEN Px ELSE s.clientWidth
  IN IF n = 0
     THEN [s EXCEPT !.itemWidth = hostW, !.visibleItems = 1,
                    !.maxScroll = 0]
     ELSE
       LET iw == IF columns > 0 THEN RoundDiv(hostW, columns) + gap
                 ELSE IF slideWidth > 0 THEN slideWidth + gap
                 ELSE rectWidth + gap
           vis == IF columns > 0 THEN columns
                  ELSE IF slideWidth > 0
                       THEN Max(1, hostW \div Max(Px, slideWidth))
                       ELSE Max(1, hostW \div Max(Px, rectWidth))
           actualItemW == iw - gap
           totalW == n * actualItemW + Max(0, n - 1) * gap
           ms == -(Max(0, n - 1) * Scale)
           s1 == [s EXCEPT !.itemWidth = iw, !.visibleItems = vis,
                           !.canOverflow = (2 * totalW > 2 * hostW + Px),
                           !.maxScroll = ms]
       IN IF ~shouldWrap(s1)
          THEN [s1 EXCEPT !.target = clamp(s.target, ms),
                          !.current = clamp(s.current, ms),
                          !.idleIndex = MathRound(clamp(s.current, ms))]
          ELSE s1

\* measure(); rectWidth is the width of slides[0].getBoundingClientRect(),
\* which the page's style sheet fixes
measure(s) ==
  LET n == s.slideCount
      hostW == IF s.clientWidth = 0 THEN Px ELSE s.clientWidth
  IN IF n = 0
     THEN [s EXCEPT !.itemWidth = hostW, !.visibleItems = 1,
                    !.canOverflow = FALSE, !.maxScroll = 0]
     ELSE
       LET iw == IF columns > 0 THEN RoundDiv(hostW, columns) + gap
                 ELSE IF slideWidth > 0 THEN slideWidth + gap
                 ELSE rectWidth + gap
           vis == IF columns > 0 THEN columns
                  ELSE IF slideWidth > 0
                       THEN Max(1, hostW \div Max(Px, slideWidth))
                       ELSE Max(1, hostW \div Max(Px, rectWidth))
           actualItemW == iw - gap
           totalW == n * actualItemW + Max(0, n - 1) * gap
           ms == -(Max(0, n - 1) * Scale)
           s1 == [s EXCEPT !.itemWidth = iw, !.visibleItems = vis,
                           !.canOverflow = (2 * totalW > 2 * hostW + Px),
                           !.maxScroll = ms]
       IN IF ~shouldWrap(s1)
          THEN [s1 EXCEPT !.target = clamp(s.target, ms),
                          !.current = clamp(s.current, ms),
                          !.idleIndex = MathRound(clamp(s.current, ms))]
          ELSE s1

addWindowListeners(s) == [s EXCEPT !.listeners = TRUE]
removeWindowListeners(s) == [s EXCEPT !.listeners = FALSE]

\* requestAnimationFrame(this.loop) assigned to this.raf: the request the
\* handle named before, if still pending, stays pending unnamed
requestFrame(s) ==
  [s EXCEPT !.strayFrames = IF s.rafLive THEN @ + 1 ELSE @,
            !.rafLive = TRUE]

ensureLoopRunning_NoGuard(s) == requestFrame([s EXCEPT !.rafRunning = TRUE])

ensureLoopRunning(s) ==
  IF ~s.rafRunning THEN requestFrame([s EXCEPT !.rafRunning = TRUE]) ELSE s

stopLoop_KeepsFlag(s) ==
  IF s.rafRunning THEN [s EXCEPT !.rafLive = FALSE] ELSE s

stopLoop(s) ==
  IF s.rafRunning THEN [s EXCEPT !.rafLive = FALSE, !.rafRunning = FALSE]
  ELSE s

effectivePre_AlwaysDesired(s) == preloadItems

\* the wrap branch's preload window [L, R), in position units
effectivePre(s) ==
  LET n == s.slideCount
      desiredPre == preloadItems
      need == s.visibleItems + 2 * desiredPre
  IN IF n >= need THEN desiredPre
     ELSE Max(0, (n - s.visibleItems) \div 2)

windowL(s) == -effectivePre(s) * Scale
windowR(s) == (s.visibleItems + effectivePre(s)) * Scale

\* raw - k * n for slide i
relBase(s, i) ==
  LET n == s.slideCount
      raw == i * Scale - s.current
      k == (raw - windowL(s)) \div (n * Scale)
  IN raw - k * n * Scale

wrapRel_WindowShift(s, i) ==
  LET r == relBase(s, i)
  IN IF r >= windowR(s) THEN r - (windowR(s) - windowL(s))
     ELSE IF r < windowL(s) THEN r + (windowR(s) - windowL(s))
     ELSE r

\* the wrap branch's rel for slide i
wrapRel(s, i) ==
  LET n == s.slideCount
      r == relBase(s, i)
  IN IF r >= windowR(s) THEN r - n * Scale
     ELSE IF r < windowL(s) THEN r + n * Scale
     ELSE r

layout(s) ==
  LET n == s.slideCount
      w == s.itemWidth
  IN IF n = 0 THEN [s EXCEPT !.rel = [i \in SlideIdx |-> None]]
     ELSE IF shouldWrap(s)
     THEN [s EXCEPT
             !.rel = [i \in SlideIdx |-> IF i < n THEN wrapRel(s, i) ELSE None],
             !.lx = [i \in SlideIdx |-> IF i < n THEN wrapRel(s, i) * w
                                        ELSE s.lx[i]]]
     ELSE
       LET clamped == clamp(s.current, s.maxScroll)
           offsetPx == -clamped * w
       IN IF s.lastAppliedX = offsetPx
          THEN [s EXCEPT !.rel = [i \in SlideIdx |-> None]]
          ELSE [s EXCEPT
                  !.lastAppliedX = offsetPx,
                  !.rel = [i \in SlideIdx |-> None],
                  !.lx = [i \in SlideIdx |-> IF i < n
                                             THEN i * Scale * w - offsetPx
                                             ELSE s.lx[i]]]

snapPull_Always(s) ==
  s.target + RoundDiv((MathRound(s.target) - s.target) * snapStrengthNum,
                      snapStrengthDen)

\* the target after the loop's pull toward the nearest integer
snapPull(s) ==
  IF snap /\ ~s.dragging
  THEN s.target + RoundDiv((MathRound(s.target) - s.target) * snapStrengthNum,
                           snapStrengthDen)
  ELSE s.target

loopBody_KeepsCurrent(s, tn) ==
  LET s1 == requestFrame(s)
      tgt == snapPull(s)
      cur == damp(s.current, tgt, tn)
      settled == ~s.dragging /\ Abs(cur - tgt) < settleEpsilon
      s2 == [s1 EXCEPT !.target = tgt, !.current = cur]
  IN IF settled
     THEN LET s3 == IF snap
                    THEN [s2 EXCEPT !.target = MathRound(tgt),
                                    !.idleIndex = MathRound(tgt)]
                    ELSE [s2 EXCEPT !.idleIndex = MathRound(cur)]
          IN stopLoop(layout(s3))
     ELSE layout(s2)

\* the frame callback after its guard; tn / TDen is damp()'s t for this
\* frame's dt
loopBody(s, tn) ==
  LET s1 == requestFrame(s)
      tgt == snapPull(s)
      cur == damp(s.current, tgt, tn)
      settled == ~s.dragging /\ Abs(cur - tgt) < settleEpsilon
      s2 == [s1 EXCEPT !.target = tgt, !.current = cur]
  IN IF settled
     THEN LET s3 == IF snap
                    THEN [s2 EXCEPT !.current = MathRound(tgt),
                                    !.target = MathRound(tgt),
                                    !.idleIndex = MathRound(tgt)]
                    ELSE [s2 EXCEPT !.idleIndex = MathRound(cur)]
          IN stopLoop(layout(s3))
     ELSE layout(s2)

loop_NoGuard(s, tn) == loopBody(s, tn)

loop(s, tn) == IF ~s.rafRunning THEN s ELSE loopBody(s, tn)

clampToRange_UpperOnly(s, x) == IF x > 0 THEN 0 ELSE x

\* if (x > 0) x = 0; else if (x < this.maxScroll) x = this.maxScroll
clampToRange(s, x) ==
  IF x > 0 THEN 0 ELSE IF x < s.maxScroll THEN s.maxScroll ELSE x

onPointerDown_NoGuard(s, x) ==
  ensureLoopRunning(addWindowListeners(
    [s EXCEPT !.dragging = TRUE, !.startX = x, !.startTarget = s.target]))

onPointerDown(s, x) ==
  IF ~s.canOverflow THEN s
  ELSE ensureLoopRunning(addWindowListeners(
         [s EXCEPT !.dragging = TRUE, !.startX = x, !.startTarget = s.target]))

onPointerMove_SameSign(s, x) ==
  IF ~s.dragging THEN s
  ELSE
    LET dx == x - s.startX
        items == RoundDiv(dx * Scale * dragGainNum,
                          Max(Px, s.itemWidth) * dragGainDen)
        t1 == s.startTarget + items
    IN [s EXCEPT !.target = IF ~shouldWrap(s) THEN clampToRange(s, t1)
                            ELSE t1]

onPointerMove(s, x) ==
  IF ~s.dragging THEN s
  ELSE
    LET dx == x - s.startX
        items == RoundDiv(dx * Scale * dragGainNum,
                          Max(Px, s.itemWidth) * dragGainDen)
        sign == IF shouldWrap(s) THEN -1 ELSE 1
        t1 == s.startTarget + sign * items
    IN [s EXCEPT !.target = IF ~shouldWrap(s) THEN clampToRange(s, t1)
                            ELSE t1]

onPointerUp_NoRound(s) ==
  IF ~s.dragging THEN s
  ELSE ensureLoopRunning(removeWindowListeners([s EXCEPT !.dragging = FALSE]))

onPointerUp(s) ==
  IF ~s.dragging THEN s
  ELSE
    LET s1 == removeWindowListeners([s EXCEPT !.dragging = FALSE])
        r == MathRound(s.target)
        s2 == IF snap
              THEN [s1 EXCEPT !.target =
                      IF ~shouldWrap(s) THEN clampToRange(s, r) ELSE r]
              ELSE s1
    IN ensureLoopRunning(s2)

stepTo_OneDirection(s, delta) ==
  IF ~s.canOverflow THEN s
  ELSE
    LET base == MathRound(s.target)
        next0 == base + delta * Scale
        next == IF ~shouldWrap(s) THEN clampToRange(s, next0) ELSE next0
    IN ensureLoopRunning([s EXCEPT !.target = next])

stepTo(s, delta) ==
  IF ~s.canOverflow THEN s
  ELSE
    LET base == MathRound(s.target)
        modeDir == IF shouldWrap(s) THEN 1 ELSE -1
        next0 == base + modeDir * delta * Scale
        next == IF ~shouldWrap(s) THEN clampToRange(s, next0) ELSE next0
    IN ensureLoopRunning([s EXCEPT !.target = next])

\* render()'s conditions: the controls are rendered when
\* shouldShowControls(), and a control is marked off / disabled by atStart
\* (prev) and atEnd (next); ctl and mode are the controls and controlsMode
\* properties
ControlsModes == {"auto", "always", "never"}

shouldShowControls(ctl, mode, s) ==
  IF ~ctl THEN FALSE
  ELSE IF mode = "always" THEN TRUE
  ELSE IF mode = "never" THEN FALSE
  ELSE s.canOverflow

atStart(s) == ~shouldWrap(s) /\ MathRound(s.target) >= 0

atEnd(s) == ~shouldWrap(s) /\ MathRound(s.target) <= s.maxScroll

connectedCallback(s) ==
  LET s1 == ensureLoopRunning(measure(s))
  IN [s1 EXCEPT !.connected = TRUE, !.resizeObs = TRUE]

\* Lit's first update, a microtask after the first connectedCallback:
\* render() creates the slot, whose slotchange runs measure() when the
\* element has slides
firstUpdate(s) ==
  LET s1 == [s EXCEPT !.hasUpdated = TRUE]
  IN IF s.slideCount > 0 THEN measure(s1) ELSE s1

disconnectedCallback_NoStop(s) ==
  LET s1 == removeWindowListeners(s)
  IN [s1 EXCEPT !.connected = FALSE, !.resizeObs = FALSE]

disconnectedCallback(s) ==
  LET s1 == removeWindowListeners(stopLoop(s))
  IN [s1 EXCEPT !.connected = FALSE, !.resizeObs = FALSE]

(* ------------------------------------------------------------------ *)
(* LeafCarousel: initial state and the handlers as actions             *)
(* ------------------------------------------------------------------ *)
Sizings ==
  { [columns |-> 0, slideWidth |-> 0, gap |-> 0, preloadItems |-> 1,
     rectWidth |-> 200],
    [columns |-> 0, slideWidth |-> 0, gap |-> 0, preloadItems |-> 1,
     rectWidth |-> 0],
    [columns |-> 2, slideWidth |-> 0, gap |-> 20, preloadItems |-> 1,
     rectWidth |-> 200],
    [columns |-> 0, slideWidth |-> 200, gap |-> 0, preloadItems |-> 0,
     rectWidth |-> 200] }

NoRun == [t0 |-> 0, seq |-> <<>>]

\* lastOp of a frame callback: "frame" for dt > 0, "frame0" for dt = 0
AfterFrame == lastOp \in {"frame", "frame0"}

Settled(s) ==
  ~s.rafRunning /\ ~s.dragging /\ Abs(s.current - s.target) < settleEpsilon

\* a LeafCarousel after construction and before it is attached, its
\* properties set and its children (the slides to be) already parsed;
\* slideCount is the number of elements the default slot has or will have
NewCarousel(bools, sizings, counts) ==
  /\ infinite \in bools
  /\ snap \in bools
  /\ \E z \in sizings :
       /\ columns = z.columns
       /\ slideWidth = z.slideWidth
       /\ gap = z.gap
       /\ preloadItems = z.preloadItems
       /\ rectWidth = z.rectWidth
  /\ connected = FALSE
  /\ hasUpdated = FALSE
  /\ slideCount \in counts
  /\ clientWidth = 0
  /\ listeners = FALSE
  /\ resizeObs = FALSE
  /\ lx = [i \in SlideIdx |-> None]
  /\ rel = [i \in SlideIdx |-> None]
  /\ emitted = 0
  /\ current = 0
  /\ target = 0
  /\ itemWidth = Px
  /\ maxScroll = 0
  /\ dragging = FALSE
  /\ startX = 0
  /\ startTarget = 0
  /\ rafRunning = FALSE
  /\ rafLive = FALSE
  /\ strayFrames = 0
  /\ visibleItems = 1
  /\ canOverflow = TRUE
  /\ lastAppliedX = None
  /\ idleIndex = 0

DefaultSizing ==
  [columns |-> 0, slideWidth |-> 0, gap |-> 0, preloadItems |-> 1,
   rectWidth |-> 200]

NewHistory(budget) ==
  /\ lastOp = "new"
  /\ lastArg = 0
  /\ run = NoRun
  /\ opsLeft = budget

\* an input operation: one handler run to completion; arg is the event's
\* clientX where a claim needs it
InputArg(name, arg, s, r) ==
  /\ opsLeft > 0
  /\ Abs(s.target) <= MaxPos * Scale
  /\ Commit(s)
  /\ lastOp' = name
  /\ lastArg' = arg
  /\ run' = r
  /\ opsLeft' = opsLeft - 1
  /\ UNCHANGED <<cfgVars, sliderVars, tagName, otherVars>>

Input(name, s, r) == InputArg(name, 0, s, r)

\* the element is attached; attaching is limited by Disconnect, which is an
\* Input, so it needs no budget of its own.  Before the first render there
\* is no slot and this.slides is empty, whatever the element's children.
Connect(hw) ==
  /\ ~connected
  /\ LET s0 == [Self EXCEPT !.clientWidth = hw]
     IN Commit(IF hasUpdated THEN connectedCallback(s0)
               ELSE firstUpdate(
                      [connectedCallback([s0 EXCEPT !.slideCount = 0])
                         EXCEPT !.slideCount = slideCount]))
  /\ lastOp' = "connect"
  /\ run' = NoRun
  /\ lastArg' = 0
  /\ UNCHANGED <<cfgVars, sliderVars, tagName, opsLeft, otherVars>>

Disconnect ==
  /\ connected
  /\ Input("disconnect", disconnectedCallback(Self), NoRun)

\* the ResizeObserver callback
Resize(hw) ==
  /\ resizeObs
  /\ Input("resize",
           ensureLoopRunning(measure([Self EXCEPT !.clientWidth = hw])),
           NoRun)

\* the default slot's slotchange: the assigned slides changed to n elements
SlotChange(n) ==
  /\ hasUpdated
  /\ n # slideCount
  /\ Input("slotchange",
           measure([Self EXCEPT
                      !.slideCount = n,
                      !.lx = [i \in SlideIdx |->
                                IF i < Min(n, slideCount) THEN lx[i]
                                ELSE None]]),
           NoRun)

PointerDown(x) ==
  /\ connected
  /\ Input("pointerdown", onPointerDown(Self, x), NoRun)

PointerMove(x) ==
  /\ listeners
  /\ InputArg("pointermove", x, onPointerMove(Self, x), NoRun)

PointerUp ==
  /\ listeners
  /\ Input("pointerup", onPointerUp(Self), NoRun)

\* goToNext (delta = 1) and goToPrev (delta = -1)
StepTo(delta) ==
  /\ connected
  /\ Input(IF delta = 1 THEN "goToNext" ELSE "goToPrev", stepTo(Self, delta),
           IF run.seq # <<>>
           THEN [run EXCEPT !.seq = Append(@, delta)]
           ELSE IF Settled(Self) /\ IsInteger(target)
           THEN [t0 |-> target, seq |-> <<delta>>]
           ELSE NoRun)

\* a pending animation-frame callback runs
Frame(tn) ==
  /\ rafLive \/ strayFrames > 0
  /\ \E live \in {b \in BOOLEAN : IF b THEN rafLive ELSE strayFrames > 0} :
       Commit(loop(IF live THEN [Self EXCEPT !.rafLive = FALSE]
                           ELSE [Self EXCEPT !.strayFrames = @ - 1], tn))
  /\ lastOp' = IF tn = 0 THEN "frame0" ELSE "frame"
  /\ lastArg' = 0
  /\ UNCHANGED <<cfgVars, sliderVars, tagName, run, opsLeft, otherVars>>

\* loop() invoked although the loop is stopped and no frame was requested
LoopCall(tn) ==
  /\ ~rafRunning
  /\ Input("loop", loop(Self, tn), run)

\* onPointerMove() / onPointerUp() invoked although no drag is in progress
PointerMoveCall(x) ==
  /\ connected /\ ~dragging
  /\ InputArg("pointermove", x, onPointerMove(Self, x), run)

PointerUpCall ==
  /\ connected /\ ~dragging
  /\ Input("pointerup", onPointerUp(Self), run)

NextCarousel ==
  \/ \E hw \in ClientWidths : Connect(hw)
  \/ Disconnect
  \/ \E hw \in ClientWidths : Resize(hw)
  \/ \E n \in 0 .. MaxSlides : SlotChange(n)
  \/ \E x \in PointerXs : PointerDown(x)
  \/ \E x \in PointerXs : PointerMove(x)
  \/ PointerUp
  \/ \E d \in {1, -1} : StepTo(d)
  \/ \E tn \in TNums : Frame(tn)
  \/ \E tn \in TNums : LoopCall(tn)
  \/ \E x \in PointerXs : PointerMoveCall(x)
  \/ PointerUpCall

(* ------------------------------------------------------------------ *)
(* ProductImageSlider.  variant "wrap" is the element with wrapIndex    *)
(* and the zoom overlay; variant "clamp" is the element whose goTo      *)
(* clamps and whose zoom is the Fullscreen API.                         *)
(* ------------------------------------------------------------------ *)
MaxImages == 3
MaxSliderOps == 4
tapMovePxWrap == 5
tapMovePxClamp == 6

Null == -1000001
SliderXs == {100, 104, 130, 70}
OffsetWidths == {0, 100}
GoToArgs == (0 - MaxImages - 1) .. (2 * MaxImages)
Keys == {"ArrowRight", "ArrowLeft", "Enter", "Escape"}

Slider ==
  [images |-> images, index |-> index, sliderStartX |-> sliderStartX,
   dragX |-> dragX, isDragging |-> isDragging, tapCandidate |-> tapCandidate,
   isZoomed |-> isZoomed, zoomHistoryPushed |-> zoomHistoryPushed,
   zoomed |-> zoomed, fullscreen |-> fullscreen, zoomEntries |-> zoomEntries,
   pendingBack |-> pendingBack, dispatched |-> dispatched, detail |-> detail]

CommitSlider(p) ==
  /\ images' = p.images /\ index' = p.index
  /\ sliderStartX' = p.sliderStartX /\ dragX' = p.dragX
  /\ isDragging' = p.isDragging /\ tapCandidate' = p.tapCandidate
  /\ isZoomed' = p.isZoomed /\ zoomHistoryPushed' = p.zoomHistoryPushed
  /\ zoomed' = p.zoomed /\ fullscreen' = p.fullscreen
  /\ zoomEntries' = p.zoomEntries /\ pendingBack' = p.pendingBack
  /\ dispatched' = p.dispatched /\ detail' = p.detail

\* JavaScript's %: the remainder has the sign of the dividend
JsRem(a, n) == IF a >= 0 THEN a % n ELSE -((-a) % n)

total(p) == p.images

zoomEnabled == zoom \/ zoomBtn

wrapIndex_NoAdd(p, i) ==
  IF total(p) = 0 THEN 0 ELSE JsRem(i, total(p))

wrapIndex(p, i) ==
  LET n == total(p)
  IN IF n = 0 THEN 0 ELSE JsRem(JsRem(i, n) + n, n)

\* dispatchEvent(new CustomEvent("index-change", { detail: { index: i } }))
dispatchIndexChange(p, i) ==
  [p EXCEPT !.dispatched = @ + 1, !.detail = i]

goToWrap_Silent(p, i) ==
  IF total(p) <= 0 THEN p
  ELSE LET clamped == wrapIndex(p, i)
       IN IF clamped # p.index THEN [p EXCEPT !.index = clamped] ELSE p

goToWrap(p, i) ==
  IF total(p) <= 0 THEN p
  ELSE LET clamped == wrapIndex(p, i)
       IN IF clamped # p.index
          THEN dispatchIndexChange([p EXCEPT !.index = clamped], clamped)
          ELSE p

goToClamp(p, i) ==
  LET clamped == Max(0, Min(i, total(p) - 1))
  IN IF clamped # p.index
     THEN dispatchIndexChange([p EXCEPT !.index = clamped], clamped)
     ELSE p

openZoom(p) ==
  [p EXCEPT !.zoomed = TRUE, !.isZoomed = TRUE,
            !.zoomEntries = @ + 1, !.zoomHistoryPushed = TRUE]

\* history.state.zoomOpen holds while the current entry is one openZoom
\* pushed; history.back() is asynchronous: the traversal and its popstate
\* come later
closeZoom(p) ==
  LET p1 == [p EXCEPT !.zoomed = FALSE, !.isZoomed = FALSE]
  IN IF p.zoomHistoryPushed
     THEN [p1 EXCEPT !.zoomHistoryPushed = FALSE,
                     !.pendingBack = IF p.zoomEntries > 0 THEN @ + 1 ELSE @]
     ELSE p1

toggleZoom(p) ==
  IF ~zoomEnabled THEN p
  ELSE IF p.zoomed THEN closeZoom(p) ELSE openZoom(p)

toggleFullscreen(p) ==
  IF ~zoomEnabled THEN p ELSE [p EXCEPT !.fullscreen = ~@]

onContainerClick(p, ui, inside) ==
  IF p.zoomed /\ ~ui /\ ~inside THEN closeZoom(p) ELSE p

handlePopState(p) ==
  IF p.isZoomed /\ p.zoomHistoryPushed THEN closeZoom(p) ELSE p

onStartWrap(p, x, ui) ==
  IF ui \/ total(p) <= 1 THEN p
  ELSE [p EXCEPT !.isDragging = TRUE, !.tapCandidate = TRUE,
                 !.sliderStartX = x, !.dragX = 0]

onMoveWrap(p, x) ==
  IF ~p.isDragging \/ p.sliderStartX = Null THEN p
  ELSE LET d == x - p.sliderStartX
       IN [p EXCEPT !.dragX = d,
                    !.tapCandidate = IF Abs(d) > tapMovePxWrap THEN FALSE
                                     ELSE @]

\* width is carousel.offsetWidth; |dx| > width * 0.2
onEndWrap(p, width, ui) ==
  IF ~p.isDragging \/ p.sliderStartX = Null THEN p
  ELSE
    LET dx == p.dragX
        w == IF width = 0 THEN 1 ELSE width
        next == IF 5 * Abs(dx) > w
                THEN (IF dx > 0 THEN wrapIndex(p, p.index - 1)
                               ELSE wrapIndex(p, p.index + 1))
                ELSE p.index
        p1 == [p EXCEPT !.index = next]
        p2 == IF zoomEnabled /\ zoom /\ p.tapCandidate /\ ~ui
              THEN toggleZoom(p1) ELSE p1
        p3 == [p2 EXCEPT !.isDragging = FALSE, !.sliderStartX = Null,
                         !.dragX = 0, !.tapCandidate = FALSE]
    IN dispatchIndexChange(p3, p3.index)

onKeyWrap(p, key) ==
  IF total(p) <= 1 THEN p
  ELSE
    LET p1 == IF key = "ArrowRight"
              THEN goToWrap(p, wrapIndex(p, p.index + 1)) ELSE p
        p2 == IF key = "ArrowLeft"
              THEN goToWrap(p1, wrapIndex(p1, p1.index - 1)) ELSE p1
        p3 == IF zoomEnabled /\ key = "Enter" THEN toggleZoom(p2) ELSE p2
    IN IF key = "Escape" THEN closeZoom(p3) ELSE p3

onStartClamp(p, x, ui) ==
  IF ui THEN p
  ELSE [p EXCEPT !.sliderStartX = x, !.dragX = 0, !.tapCandidate = TRUE]

onMoveClamp(p, x) ==
  IF p.sliderStartX = Null THEN p
  ELSE LET d == x - p.sliderStartX
       IN [p EXCEPT !.dragX = d,
                    !.tapCandidate = IF Abs(d) > tapMovePxClamp THEN FALSE
                                     ELSE @]

onEndClamp(p, width, ui) ==
  IF p.sliderStartX = Null THEN p
  ELSE
    LET w == IF width = 0 THEN 1 ELSE width
        p1 == IF 5 * p.dragX > w /\ p.index > 0
              THEN [p EXCEPT !.index = @ - 1]
              ELSE IF 5 * p.dragX < -w /\ p.index < total(p) - 1
              THEN [p EXCEPT !.index = @ + 1]
              ELSE p
        p2 == IF zoomEnabled /\ zoom /\ p.tapCandidate /\ ~ui
              THEN toggleFullscreen(p1) ELSE p1
        p3 == [p2 EXCEPT !.sliderStartX = Null, !.dragX = 0,
                         !.tapCandidate = FALSE]
    IN dispatchIndexChange(p3, p3.index)

onKeyClamp(p, key) ==
  LET p1 == IF key = "ArrowRight" THEN goToClamp(p, p.index + 1) ELSE p
      p2 == IF key = "ArrowLeft" THEN goToClamp(p1, p1.index - 1) ELSE p1
  IN IF zoomEnabled /\ key = "Enter" THEN toggleFullscreen(p2) ELSE p2

NewSlider(variants, bools) ==
  /\ variant \in variants
  /\ zoom \in bools
  /\ zoomBtn \in bools
  /\ images = 0
  /\ index = 0
  /\ sliderStartX = Null
  /\ dragX = 0
  /\ isDragging = FALSE
  /\ tapCandidate = FALSE
  /\ isZoomed = FALSE
  /\ zoomHistoryPushed = FALSE
  /\ zoomed = FALSE
  /\ fullscreen = FALSE
  /\ zoomEntries = 0
  /\ pendingBack = 0
  /\ dispatched = 0
  /\ detail = Null

SliderInput(name, arg, p) ==
  /\ opsLeft > 0
  /\ CommitSlider(p)
  /\ lastOp' = name
  /\ lastArg' = arg
  /\ opsLeft' = opsLeft - 1
  /\ UNCHANGED <<carouselVars, sliderCfgVars, tagName, run, otherVars>>

\* the images property is assigned an array of k images
SetImages(k) ==
  /\ k # images
  /\ SliderInput("images", k, [Slider EXCEPT !.images = k])

GoTo(i) ==
  SliderInput("goTo", i,
              IF variant = "wrap" THEN goToWrap(Slider, i)
              ELSE goToClamp(Slider, i))

OnStart(x, ui) ==
  SliderInput("onStart", x,
              IF variant = "wrap" THEN onStartWrap(Slider, x, ui)
              ELSE onStartClamp(Slider, x, ui))

OnMove(x) ==
  SliderInput("onMove", x,
              IF variant = "wrap" THEN onMoveWrap(Slider, x)
              ELSE onMoveClamp(Slider, x))

OnEnd(width, ui) ==
  SliderInput("onEnd", 0,
              IF variant = "wrap" THEN onEndWrap(Slider, width, ui)
              ELSE onEndClamp(Slider, width, ui))

OnKey(key) ==
  SliderInput(key, 0,
              IF variant = "wrap" THEN onKeyWrap(Slider, key)
              ELSE onKeyClamp(Slider, key))

\* click on the zoom button
OnZoomButton ==
  /\ zoomBtn
  /\ SliderInput("onZoomButton", 0,
                 IF variant = "wrap" THEN toggleZoom(Slider)
                 ELSE toggleFullscreen(Slider))

\* click inside the element, on a control (ui) or not, inside the
\* .carousel-container or not
OnContainerClick(ui, inside) ==
  /\ variant = "wrap"
  /\ SliderInput("click", 0, onContainerClick(Slider, ui, inside))

\* a history traversal one entry back completes (the browser's Back button,
\* or a history.back() requested by closeZoom) and popstate is delivered;
\* lastArg records whether the traversal was the component's own (1)
PopState(own) ==
  /\ variant = "wrap"
  /\ zoomEntries > 0
  /\ own => pendingBack > 0
  /\ SliderInput("popstate", IF own THEN 1 ELSE 0,
                 handlePopState([Slider EXCEPT
                                   !.zoomEntries = @ - 1,
                                   !.pendingBack = IF own THEN @ - 1 ELSE @]))

NextSlider ==
  \/ \E k \in 0 .. MaxImages : SetImages(k)
  \/ \E i \in GoToArgs : GoTo(i)
  \/ \E x \in SliderXs, ui \in BOOLEAN : OnStart(x, ui)
  \/ \E x \in SliderXs : OnMove(x)
  \/ \E w \in OffsetWidths, ui \in BOOLEAN : OnEnd(w, ui)
  \/ \E key \in Keys : OnKey(key)
  \/ OnZoomButton
  \/ \E ui \in BOOLEAN, inside \in BOOLEAN : OnContainerClick(ui, inside)
  \/ \E own \in BOOLEAN : PopState(own)

(* ------------------------------------------------------------------ *)
(* TypeWriterEl (type-writer.ts).  A string is a sequence of          *)
(* characters.  A timer handle is "null" before it is assigned,       *)
(* "pending" while the timeout it names is outstanding and "done"     *)
(* once that timeout has fired or was cleared; strayTicks counts      *)
(* outstanding tick timeouts that _timer names no more.  The delays   *)
(* of nextDelay() are not modelled: a pending timeout fires at some   *)
(* later time.  lastControl records which of play() (past its guard), *)
(* pause() and disconnectedCallback() ran last.                        *)
(* ------------------------------------------------------------------ *)
MaxText == 3
MaxTwOps == 4

Chars == <<"a", ",", "b", ".">>
Text(n) == [i \in 1 .. n |-> Chars[((i - 1) % Len(Chars)) + 1]]
Texts == {Text(n) : n \in 0 .. MaxText}
Delays == {0, 100}

Tw ==
  [connected |-> twConnected, inited |-> inited, full |-> full,
   display |-> display, playing |-> playing, pos |-> pos, dir |-> dir,
   timer |-> timer, strayTicks |-> strayTicks, startTimer |-> startTimer,
   io |-> io, lastControl |-> lastControl]

CommitTw(w) ==
  /\ twConnected' = w.connected /\ inited' = w.inited /\ full' = w.full
  /\ display' = w.display /\ playing' = w.playing /\ pos' = w.pos
  /\ dir' = w.dir /\ timer' = w.timer /\ strayTicks' = w.strayTicks
  /\ startTimer' = w.startTimer /\ io' = w.io
  /\ lastControl' = w.lastControl

\* String.prototype.slice(0, b): a negative b counts from the end
slice(str, b) ==
  LET e == IF b < 0 THEN Max(Len(str) + b, 0) ELSE Min(b, Len(str))
  IN SubSeq(str, 1, e)

\* this._timer = window.setTimeout(() => this.tick(), ...)
setTimer(w) ==
  [w EXCEPT !.strayTicks = IF w.timer = "pending" THEN @ + 1 ELSE @,
            !.timer = "pending"]

\* if (this._timer) clearTimeout(this._timer)
clearTimer(w) == IF w.timer = "pending" THEN [w EXCEPT !.timer = "done"] ELSE w

\* if (this._startTimer) clearTimeout(this._startTimer)
clearStartTimer(w) ==
  IF w.startTimer = "pending" THEN [w EXCEPT !.startTimer = "done"] ELSE w

tick_NoMin(w) ==
  IF ~w.playing THEN w
  ELSE
    LET len == Len(w.full)
    IN IF w.dir = 1
       THEN LET p == w.pos + 1
                w1 == [w EXCEPT !.pos = p, !.display = slice(w.full, p)]
            IN IF p >= len
               THEN IF twLoop THEN setTimer([w1 EXCEPT !.dir = -1])
                    ELSE [w1 EXCEPT !.playing = FALSE]
               ELSE setTimer(w1)
       ELSE LET p == Max(0, w.pos - 1)
                w1 == [w EXCEPT !.pos = p, !.display = slice(w.full, p)]
            IN IF p <= 0 THEN setTimer([w1 EXCEPT !.dir = 1])
               ELSE setTimer(w1)

tick(w) ==
  IF ~w.playing THEN w
  ELSE
    LET len == Len(w.full)
    IN IF w.dir = 1
       THEN LET p == Min(len, w.pos + 1)
                w1 == [w EXCEPT !.pos = p, !.display = slice(w.full, p)]
            IN IF p >= len
               THEN IF twLoop THEN setTimer([w1 EXCEPT !.dir = -1])
                    ELSE [w1 EXCEPT !.playing = FALSE]
               ELSE setTimer(w1)
       ELSE LET p == Max(0, w.pos - 1)
                w1 == [w EXCEPT !.pos = p, !.display = slice(w.full, p)]
            IN IF p <= 0 THEN setTimer([w1 EXCEPT !.dir = 1])
               ELSE setTimer(w1)

play_NoTick(w) ==
  IF ~w.playing /\ Len(w.full) > 0
  THEN [w EXCEPT !.playing = TRUE, !.lastControl = "play"]
  ELSE w

play(w) ==
  IF ~w.playing /\ Len(w.full) > 0
  THEN tick([w EXCEPT !.playing = TRUE, !.lastControl = "play"])
  ELSE w

pause(w) == clearTimer([w EXCEPT !.playing = FALSE, !.lastControl = "pause"])

reset(w) == [pause(w) EXCEPT !.pos = 0, !.dir = 1, !.display = <<>>]

restart(w) == play(reset(w))

\* the text attribute, or the element's text content, is read once
prepareText(w) ==
  IF w.inited THEN w ELSE [w EXCEPT !.inited = TRUE, !.full = textAttr]

schedulePlay(w) ==
  LET w1 == clearStartTimer(w)
  IN IF delay = 0 THEN play(w1) ELSE [w1 EXCEPT !.startTimer = "pending"]

\* a new IntersectionObserver observes the element
watchInView(w) == [w EXCEPT !.io = TRUE]

\* the observer's callback with an intersecting entry
onIntersect(w) == schedulePlay([w EXCEPT !.io = FALSE])

twConnectedCallback(w) ==
  LET w1 == prepareText([w EXCEPT !.connected = TRUE])
  IN IF inview THEN watchInView(w1) ELSE schedulePlay(w1)

twDisconnectedCallback(w) ==
  [clearStartTimer(clearTimer(w)) EXCEPT !.io = FALSE, !.connected = FALSE,
                                         !.lastControl = "detach"]

\* a TypeWriterEl after construction
NewTypeWriter(texts, bools, delays) ==
  /\ textAttr \in texts
  /\ twLoop \in bools
  /\ inview \in bools
  /\ delay \in delays
  /\ twConnected = FALSE
  /\ inited = FALSE
  /\ full = <<>>
  /\ display = <<>>
  /\ playing = FALSE
  /\ pos = 0
  /\ dir = 1
  /\ timer = "null"
  /\ strayTicks = 0
  /\ startTimer = "null"
  /\ io = FALSE
  /\ lastControl = "none"

\* one step of the element
TwStep(name, w) ==
  /\ CommitTw(w)
  /\ lastOp' = name
  /\ UNCHANGED <<carouselVars, sliderVars, twCfgVars, trackVars, onViewVars,
                 tagName, lastArg, run>>

\* an operation of the host page
TwInput(name, w) ==
  /\ opsLeft > 0
  /\ opsLeft' = opsLeft - 1
  /\ TwStep(name, w)

TwConnect ==
  /\ ~twConnected
  /\ TwInput("connect", twConnectedCallback(Tw))

TwDisconnect ==
  /\ twConnected
  /\ TwInput("disconnect", twDisconnectedCallback(Tw))

Play == TwInput("play", play(Tw))

Pause == TwInput("pause", pause(Tw))

Reset == TwInput("reset", reset(Tw))

Restart == TwInput("restart", restart(Tw))

\* the element comes into view
Intersect ==
  /\ io
  /\ opsLeft' = opsLeft
  /\ TwStep("intersect", onIntersect(Tw))

\* the start-delay timeout of schedulePlay fires
StartTimerFires ==
  /\ startTimer = "pending"
  /\ opsLeft' = opsLeft
  /\ TwStep("starttimer", play([Tw EXCEPT !.startTimer = "done"]))

\* a tick timeout fires: the one _timer names, or a stray one
TimerFires ==
  /\ timer = "pending" \/ strayTicks > 0
  /\ opsLeft' = opsLeft
  /\ \E live \in {b \in BOOLEAN : IF b THEN timer = "pending"
                                  ELSE strayTicks > 0} :
       TwStep("tick",
              tick(IF live THEN [Tw EXCEPT !.timer = "done"]
                   ELSE [Tw EXCEPT !.strayTicks = @ - 1]))

NextTypeWriter ==
  \/ TwConnect
  \/ TwDisconnect
  \/ Play
  \/ Pause
  \/ Reset
  \/ Restart
  \/ Intersect
  \/ StartTimerFires
  \/ TimerFires

(* ------------------------------------------------------------------ *)
(* ProductImageSlider: the range of track buttons render() shows       *)
(* ------------------------------------------------------------------ *)
MaxTracks == 5
TracksLimits == (0 - 1) .. (MaxTracks + 1)

getVisibleTrackRange_OddOnly(p) ==
  LET n == total(p)
      limit == trackslimit
  IN IF limit <= 0 \/ limit >= n THEN [start |-> 0, end |-> n - 1]
     ELSE
       LET halfLimit == limit \div 2
           start0 == p.index - halfLimit
           end0 == p.index + halfLimit
           end1 == IF start0 < 0 THEN Min(n - 1, end0 + Abs(start0)) ELSE end0
           start1 == IF start0 < 0 THEN 0 ELSE start0
       IN IF end1 >= n
          THEN [start |-> Max(0, start1 - (end1 - (n - 1))), end |-> n - 1]
          ELSE [start |-> start1, end |-> end1]

getVisibleTrackRange(p) ==
  LET n == total(p)
      limit == trackslimit
  IN IF limit <= 0 \/ limit >= n THEN [start |-> 0, end |-> n - 1]
     ELSE
       LET halfLimit == limit \div 2
           start0 == p.index - halfLimit
           end0 == IF limit % 2 = 0 THEN p.index + halfLimit - 1
                   ELSE p.index + halfLimit
           end1 == IF start0 < 0 THEN Min(n - 1, end0 + Abs(start0)) ELSE end0
           start1 == IF start0 < 0 THEN 0 ELSE start0
       IN IF end1 >= n
          THEN [start |-> Max(0, start1 - (end1 - (n - 1))), end |-> n - 1]
          ELSE [start |-> start1, end |-> end1]

NewTracks(limits) ==
  /\ trackslimit \in limits
  /\ rangeStart = Null
  /\ rangeEnd = Null

\* render() computes the track range of the element's present state
RenderTracks ==
  /\ LET r == getVisibleTrackRange(Slider)
     IN /\ rangeStart' = r.start
        /\ rangeEnd' = r.end
  /\ lastOp' = "render"
  /\ UNCHANGED <<carouselVars, sliderVars, twVars, onViewVars, trackslimit,
                 tagName, lastArg, run, opsLeft>>

NextTracks ==
  \/ \E k \in 0 .. MaxTracks : SetImages(k)
  \/ \E i \in 0 .. (MaxTracks - 1) : GoTo(i)
  \/ RenderTracks

(* ------------------------------------------------------------------ *)
(* on-view (utils/on-view.ts).  The page has the elements Elems, all   *)
(* of class on-view; custom are those whose style sets                 *)
(* --on-view-threshold or --on-view-margin.  observed is the target    *)
(* set of the module's observer, elementObservers[e] the number of     *)
(* per-element observers that observe e, frames the elements with a    *)
(* requested animation frame that will add the class.                  *)
(* ------------------------------------------------------------------ *)
MaxElems == 2
MaxOnViewOps == 3

Elems == 1 .. MaxElems

OnView ==
  [observer |-> observer, observed |-> observed,
   elementObservers |-> elementObservers, animated |-> animated,
   frames |-> frames]

CommitOnView(v) ==
  /\ observer' = v.observer /\ observed' = v.observed
  /\ elementObservers' = v.elementObservers /\ animated' = v.animated
  /\ frames' = v.frames

initOnView(v) ==
  [v EXCEPT !.observer = TRUE,
            !.observed = Elems \ custom,
            !.elementObservers = [e \in Elems |->
                                    IF e \in custom THEN @[e] + 1 ELSE @[e]]]

addOnViewElement(v, e) ==
  IF v.observer THEN [v EXCEPT !.observed = @ \cup {e}] ELSE v

removeOnViewElement(v, e) ==
  IF v.observer THEN [v EXCEPT !.observed = @ \ {e}] ELSE v

destroyOnView(v) ==
  IF v.observer THEN [v EXCEPT !.observer = FALSE, !.observed = {}] ELSE v

\* an observer's callback with an entry for e; own tells a per-element
\* observer from the module's observer
onEntry(v, e, own, isIntersecting) ==
  IF isIntersecting
  THEN LET v1 == [v EXCEPT !.frames = @ \cup {e}]
       IN IF ~once THEN v1
          ELSE IF own THEN [v1 EXCEPT !.elementObservers[e] = @ - 1]
          ELSE IF v1.observer THEN [v1 EXCEPT !.observed = @ \ {e}]
          ELSE v1
  ELSE IF ~once THEN [v EXCEPT !.animated = @ \ {e}]
  ELSE v

\* the animation frame requested for e: classList.add("on-view-animated")
onFrame(v, e) == [v EXCEPT !.frames = @ \ {e}, !.animated = @ \cup {e}]

NewOnView(customs, bools) ==
  /\ once \in bools
  /\ custom \in customs
  /\ observer = FALSE
  /\ observed = {}
  /\ elementObservers = [e \in Elems |-> 0]
  /\ animated = {}
  /\ frames = {}

OnViewStep(name, e, v) ==
  /\ CommitOnView(v)
  /\ lastOp' = name
  /\ lastArg' = e
  /\ UNCHANGED <<carouselVars, sliderVars, twVars, trackVars, onViewCfgVars,
                 tagName, run>>

OnViewInput(name, e, v) ==
  /\ opsLeft > 0
  /\ opsLeft' = opsLeft - 1
  /\ OnViewStep(name, e, v)

InitOnViewCall == OnViewInput("initOnView", 0, initOnView(OnView))

DestroyOnViewCall == OnViewInput("destroyOnView", 0, destroyOnView(OnView))

AddOnViewElement(e) ==
  OnViewInput("addOnViewElement", e, addOnViewElement(OnView, e))

RemoveOnViewElement(e) ==
  OnViewInput("removeOnViewElement", e, removeOnViewElement(OnView, e))

\* an observer that observes e delivers an entry for it: the element
\* receives viewenter (intersecting) or, unless once, viewexit
Entry(e, own, isIntersecting) ==
  /\ IF own THEN elementObservers[e] > 0 ELSE e \in observed
  /\ isIntersecting \/ ~once
  /\ opsLeft' = opsLeft
  /\ OnViewStep(IF isIntersecting THEN "viewenter" ELSE "viewexit", e,
                onEntry(OnView, e, own, isIntersecting))

AnimationFrame(e) ==
  /\ e \in frames
  /\ opsLeft' = opsLeft
  /\ OnViewStep("classadd", e, onFrame(OnView, e))

NextOnView ==
  \/ InitOnViewCall
  \/ DestroyOnViewCall
  \/ \E e \in Elems : AddOnViewElement(e)
  \/ \E e \in Elems : RemoveOnViewElement(e)
  \/ \E e \in Elems, own \in BOOLEAN, isIntersecting \in BOOLEAN :
       Entry(e, own, isIntersecting)
  \/ \E e \in Elems : AnimationFrame(e)

(* ------------------------------------------------------------------ *)
(* Specifications                                                      *)
(* ------------------------------------------------------------------ *)
InitCarousel ==
  /\ tagName = "leaf-carousel"
  /\ NewCarousel(BOOLEAN, Sizings, 0 .. MaxSlides)
  /\ NewSlider({"wrap"}, {FALSE})
  /\ NewHistory(MaxOps)
  /\ NewTypeWriter({<<>>}, {FALSE}, {0})
  /\ NewTracks({0})
  /\ NewOnView({{}}, {TRUE})

InitSlider ==
  /\ tagName = "product-image-slider"
  /\ NewCarousel({TRUE}, {DefaultSizing}, {0})
  /\ NewSlider({"wrap", "clamp"}, BOOLEAN)
  /\ NewHistory(MaxSliderOps)
  /\ NewTypeWriter({<<>>}, {FALSE}, {0})
  /\ NewTracks({0})
  /\ NewOnView({{}}, {TRUE})

\* the LeafCarousel element
Spec == InitCarousel /\ [][NextCarousel]_vars

\* the ProductImageSlider element
SpecSlider == InitSlider /\ [][NextSlider]_vars

\* either element
NextElement ==
  \/ tagName = "leaf-carousel" /\ NextCarousel
  \/ tagName = "product-image-slider" /\ NextSlider

SpecElements == (InitCarousel \/ InitSlider) /\ [][NextElement]_vars

InitTypeWriter ==
  /\ tagName = "type-writer"
  /\ NewCarousel({TRUE}, {DefaultSizing}, {0})
  /\ NewSlider({"wrap"}, {FALSE})
  /\ NewHistory(MaxTwOps)
  /\ NewTypeWriter(Texts, BOOLEAN, Delays)
  /\ NewTracks({0})
  /\ NewOnView({{}}, {TRUE})

\* the TypeWriterEl element
SpecTypeWriter == InitTypeWriter /\ [][NextTypeWriter]_vars

\* the same, with every pending timeout firing eventually
SpecTypeWriterFair ==
  SpecTypeWriter /\ WF_vars(TimerFires) /\ WF_vars(StartTimerFires)

InitTracks ==
  /\ tagName = "product-image-slider"
  /\ NewCarousel({TRUE}, {DefaultSizing}, {0})
  /\ NewSlider({"wrap"}, {FALSE})
  /\ NewHistory(MaxSliderOps)
  /\ NewTypeWriter({<<>>}, {FALSE}, {0})
  /\ NewTracks(TracksLimits)
  /\ NewOnView({{}}, {TRUE})

\* the ProductImageSlider's track buttons
SpecTracks == InitTracks /\ [][NextTracks]_vars

InitOnViewPage ==
  /\ tagName = "on-view"
  /\ NewCarousel({TRUE}, {DefaultSizing}, {0})
  /\ NewSlider({"wrap"}, {FALSE})
  /\ NewHistory(MaxOnViewOps)
  /\ NewTypeWriter({<<>>}, {FALSE}, {0})
  /\ NewTracks({0})
  /\ NewOnView(SUBSET Elems, BOOLEAN)

\* the on-view module on a page
SpecOnView == InitOnViewPage /\ [][NextOnView]_vars

TypeOK ==
  /\ strayFrames \in 0 .. 1
  /\ opsLeft \in 0 .. Max(MaxOps, MaxSliderOps)
  /\ dispatched \in 0 .. MaxSliderOps

(* ------------------------------------------------------------------ *)
(* Claims                                                              *)
(* ------------------------------------------------------------------ *)

\* C1: whenever wrap mode is off, target and current lie in [maxScroll, 0].
C1_ClampInvariant ==
  ~shouldWrap(Self) =>
     /\ maxScroll <= target /\ target <= 0
     /\ maxScroll <= current /\ current <= 0

\* C3: loop() invoked while the loop is stopped changes neither current,
\* target, idleIndex, rafRunning nor any slide transform, and requests no
\* frame.
C3_IdempotentSettlement ==
  [][lastOp' = "loop" =>
       UNCHANGED <<current, target, idleIndex, rafRunning, lx, lastAppliedX,
                   rafLive, strayFrames>>]_vars

C3_Witness ==
  /\ lastOp = "loop"
  /\ ~rafRunning /\ current = target
  /\ slideCount > 0 /\ lx[0] # None

\* C4: after a wrap-mode layout pass, every slide's rel differs from
\* i - current by an integer multiple of slideCount.
C4_WrapCongruence ==
  AfterFrame =>
    \A i \in SlideIdx :
      rel[i] # None =>
        (rel[i] - (i * Scale - current)) % (slideCount * Scale) = 0

C4_Witness ==
  /\ lastOp = "frame"
  /\ shouldWrap(Self)
  /\ ~IsInteger(current)
  /\ \E i \in SlideIdx : rel[i] # None /\ rel[i] < i * Scale - current

\* the loop has stopped itself within settleEpsilon of the target
Stopped ==
  /\ ~rafRunning /\ ~rafLive /\ strayFrames = 0
  /\ Abs(current - target) < settleEpsilon

\* C2 as stated, as a progress rule: a frame with dt > 0 of a running loop
\* either stops the loop within settleEpsilon of the target or leaves it
\* running with the same target and a strictly smaller |current - target|.
\* The distance is a natural number of position units, so a loop that gets
\* such frames and no input stops after finitely many of them.
C2_ConvergenceAnyState ==
  [][(lastOp' = "frame" /\ rafRunning) =>
        \/ Stopped'
        \/ /\ rafRunning' /\ rafLive'
           /\ target' = target
           /\ Abs(current' - target') < Abs(current - target)]_vars

\* C2 amended: the same, for frames that find no drag in progress.
C2_Convergence ==
  [][(lastOp' = "frame" /\ rafRunning /\ ~dragging) =>
        \/ Stopped'
        \/ /\ rafRunning' /\ rafLive'
           /\ target' = target
           /\ Abs(current' - target') < Abs(current - target)]_vars

C2_Witness ==
  /\ lastOp = "frame"
  /\ Stopped
  /\ target # 0
  /\ ~snap /\ current # target

\* C5 as stated: stepTo(+1) then stepTo(-1) from a settled integer target
\* t0, frames interleaved, ends with target = t0, and once the loop has
\* stopped current = t0.
C5_RoundTripAnyTarget ==
  run.seq = <<1, -1>> =>
    /\ target = run.t0
    /\ ~rafRunning => current = run.t0

\* C5 amended: the round trip returns to t0 in wrap mode, when canOverflow
\* is false, and in bounded mode unless t0 = maxScroll < 0, where it ends at
\* t0 + 1; once the loop has stopped current is within settleEpsilon of
\* target, and equal to it when snap is on.
C5_RoundTrip ==
  run.seq = <<1, -1>> =>
    /\ (shouldWrap(Self) \/ ~canOverflow \/ run.t0 > maxScroll
          \/ maxScroll = 0) => target = run.t0
    /\ (~shouldWrap(Self) /\ canOverflow /\ run.t0 = maxScroll
          /\ maxScroll < 0) => target = run.t0 + Scale
    /\ ~rafRunning => /\ Abs(current - target) < settleEpsilon
                      /\ snap => current = target

C5_Witness ==
  /\ run.seq = <<1, -1>>
  /\ ~shouldWrap(Self) /\ canOverflow
  /\ run.t0 = 0 /\ maxScroll < 0
  /\ lastOp = "frame" /\ ~rafRunning /\ current = 0

AllOnes(q) == \A j \in 1 .. Len(q) : q[j] = 1

\* C6 as stated: in wrap mode k consecutive stepTo(+1) from a settled
\* integer target t0 leave target = t0 + k; once the loop has stopped
\* current = t0 + k and slide (t0 + k) mod slideCount has rel = 0.
C6_StepsAccumulateExact ==
  (run.seq # <<>> /\ AllOnes(run.seq) /\ shouldWrap(Self)) =>
    LET goal == run.t0 + Len(run.seq) * Scale
    IN /\ target = goal
       /\ (AfterFrame /\ ~rafRunning) =>
             /\ current = goal
             /\ rel[(goal \div Scale) % slideCount] = 0

\* C6 amended: target = t0 + k as stated; once the loop has stopped, with
\* snap on current = t0 + k and that slide's rel = 0, and with snap off
\* current and that slide's rel are within settleEpsilon of t0 + k and 0.
C6_StepsAccumulate ==
  (run.seq # <<>> /\ AllOnes(run.seq) /\ shouldWrap(Self)) =>
    LET goal == run.t0 + Len(run.seq) * Scale
        j == (goal \div Scale) % slideCount
    IN /\ target = goal
       /\ (AfterFrame /\ ~rafRunning) =>
             /\ Abs(current - goal) < settleEpsilon
             /\ rel[j] = goal - current
             /\ snap => (current = goal /\ rel[j] = 0)

C6_Witness ==
  /\ run.seq = <<1, 1, 1>> /\ run.t0 = 0
  /\ shouldWrap(Self) /\ snap
  /\ lastOp = "frame" /\ ~rafRunning
  /\ current = 3 * Scale
  /\ rel[3 % slideCount] = 0

\* C7: with canOverflow true, stepTo(delta) sets target to
\* round(target) + delta in wrap mode and to
\* clamp(round(target) - delta, maxScroll, 0) in bounded mode.
C7_StepFormula ==
  [][\A d \in {1, -1} :
       (lastOp' = (IF d = 1 THEN "goToNext" ELSE "goToPrev") /\ canOverflow)
         => target' = IF infinite
                      THEN MathRound(target) + d * Scale
                      ELSE Min(0, Max(maxScroll, MathRound(target) - d * Scale))
    ]_vars

C7_Witness ==
  /\ lastOp = "goToPrev"
  /\ run.seq = <<-1>> /\ run.t0 = 0
  /\ ~infinite /\ canOverflow /\ maxScroll < 0
  /\ target = 0

(* C8: with zero images, goTo(i) changes no state and emits no            *)
(* index-change event, whatever i and whatever the index was.             *)
C8_ZeroImagesGoTo ==
  [][(lastOp' = "goTo" /\ images = 0) =>
        /\ index' = index
        /\ dispatched' = dispatched
        /\ detail' = detail]_vars

(* C9: in the element with wrapIndex, goTo(i) with count > 0 sets the     *)
(* index to ((i mod count) + count) mod count, for negative i and         *)
(* i >= count too, so the index is in 0 .. count-1.                       *)
C9_GoToWraps ==
  [][(lastOp' = "goTo" /\ variant = "wrap" /\ images > 0) =>
        /\ index' = ((lastArg' % images) + images) % images
        /\ index' \in 0 .. (images - 1)]_vars

C9_Witness ==
  /\ lastOp = "goTo" /\ variant = "wrap"
  /\ images = 3 /\ lastArg = -1 /\ index = 2

\* the integer slide index of the LeafCarousel: the slide its target names
carouselIndex(tgt) == MathRound(tgt) \div Scale

C11_NoEventWithoutChange ==
  [][(tagName = "product-image-slider" /\ index' = index) =>
        dispatched' = dispatched]_vars

(* C12: with canOverflow false a pointerdown and a stepTo(+1/-1) are       *)
(* no-ops: dragging, target, current, startX, startTarget, the loop's      *)
(* running state and the window listeners are all unchanged.               *)
C12_NoOverflowNoOp ==
  [][(lastOp' \in {"pointerdown", "goToNext", "goToPrev"} /\ ~canOverflow) =>
        UNCHANGED <<dragging, target, current, startX, startTarget,
                    rafRunning, rafLive, strayFrames, listeners, lx,
                    lastAppliedX, idleIndex>>]_vars

C12_Witness ==
  /\ lastOp = "pointerdown"
  /\ connected /\ slideCount > 0 /\ ~canOverflow
  /\ ~dragging /\ ~listeners /\ ~rafRunning

(* C13: every operation that changes target while the loop is idle        *)
(* (stepTo, drag begin / move / release, the clamping of measure on       *)
(* resize or slot change) leaves the loop running with a frame requested. *)
C13_TargetChangeRestartsLoop ==
  [][(/\ lastOp' \in {"goToNext", "goToPrev", "pointerdown", "pointermove",
                      "pointerup", "resize", "slotchange"}
      /\ ~rafRunning
      /\ target' # target) =>
        (rafRunning' /\ rafLive')]_vars

(* C14: a pointerup while dragging sets dragging = false and, when snap   *)
(* is enabled, sets target to the nearest integer of its pre-release      *)
(* value, clamped into [maxScroll, 0] when wrap mode is off (with snap    *)
(* off target is kept); a pointerup while not dragging changes nothing.   *)
C14_DragRelease ==
  [][lastOp' = "pointerup" =>
       IF dragging
       THEN /\ ~dragging'
            /\ target' = IF ~snap THEN target
                         ELSE IF shouldWrap(Self) THEN MathRound(target)
                         ELSE Min(0, Max(maxScroll, MathRound(target)))
       ELSE UNCHANGED carouselVars]_vars

C14_Witness ==
  /\ lastOp = "pointerup"
  /\ snap /\ ~dragging /\ ~listeners
  /\ canOverflow /\ ~infinite
  /\ target # startTarget /\ IsInteger(target) /\ target < 0

(* C15: while the component is detached no frame is pending or running    *)
(* (so no frame callback can change current, target or a transform), and  *)
(* the window pointer listeners and the resize observer are released.     *)
C15_DetachedIsQuiet ==
  ~connected =>
     /\ ~rafRunning /\ ~rafLive /\ strayFrames = 0
     /\ ~listeners /\ ~resizeObs

C15_Witness ==
  /\ lastOp = "disconnect" /\ ~connected /\ hasUpdated
  /\ dragging /\ current # target /\ slideCount > 0

(* C16: a measure with zero slides (on attach, resize or slot change)     *)
(* sets itemWidth to the host width, visibleItems = 1, canOverflow =      *)
(* false and maxScroll = 0; afterwards, while there are no slides, no     *)
(* operation and no layout pass writes a transform, and stepTo and        *)
(* pointerdown change nothing.                                            *)
C16_ZeroSlides ==
  [][/\ (lastOp' \in {"connect", "resize", "slotchange"} /\ slideCount' = 0) =>
          /\ itemWidth' = IF clientWidth' = 0 THEN Px ELSE clientWidth'
          /\ visibleItems' = 1
          /\ ~canOverflow'
          /\ maxScroll' = 0
     /\ (hasUpdated /\ slideCount = 0 /\ slideCount' = 0) =>
          /\ UNCHANGED <<lx, lastAppliedX>>
          /\ lastOp' \in {"goToNext", "goToPrev", "pointerdown"} =>
               UNCHANGED <<target, current, dragging, startX, startTarget,
                           rafRunning, rafLive, listeners>>]_vars

C16_Witness ==
  /\ lastOp = "goToNext" /\ connected
  /\ slideCount = 0 /\ clientWidth = 400 /\ itemWidth = 400
  /\ visibleItems = 1 /\ ~canOverflow /\ maxScroll = 0
  /\ target # 0 /\ ~rafRunning

(* C17: with snap enabled, in every reachable state in which dragging is  *)
(* false, target is an integer.                                           *)
C17_IntegerTarget ==
  (snap /\ ~dragging) => IsInteger(target)

C17_Witness ==
  /\ lastOp = "pointerup"
  /\ snap /\ ~dragging /\ shouldWrap(Self)
  /\ target # startTarget /\ IsInteger(target)

(* C18: a pointermove at pointerX while dragging sets                     *)
(* target = startTarget + sign * (dx / max(1, itemWidth)) * dragGain,     *)
(* dx = pointerX - startX, sign = -1 in wrap mode and +1 in bounded mode, *)
(* clamped to [maxScroll, 0] in bounded mode; a pointermove while not     *)
(* dragging leaves target unchanged.                                      *)
C18_DragUpdate ==
  [][lastOp' = "pointermove" =>
       LET dx == lastArg' - startX
           items == RoundDiv(dx * Scale * dragGainNum,
                             Max(Px, itemWidth) * dragGainDen)
       IN target' = IF ~dragging THEN target
                    ELSE IF infinite /\ canOverflow THEN startTarget - items
                    ELSE Min(0, Max(maxScroll, startTarget + items))]_vars

C18_Witness ==
  /\ lastOp = "pointermove" /\ dragging
  /\ infinite /\ canOverflow
  /\ startX = 200 /\ lastArg = 260
  /\ target < startTarget /\ ~IsInteger(target)

C20_DragSuspendsSnap ==
  [][(lastOp' \in {"frame", "frame0"} /\ (dragging \/ ~snap)) =>
        target' = target]_vars

C20_Witness ==
  /\ lastOp = "frame" /\ rafRunning
  /\ dragging /\ snap
  /\ ~IsInteger(target) /\ current # startTarget

(* C21 as stated: in every wrap-mode layout pass every slide's rel lies   *)
(* in the preload window [L, R), L = -effectivePre, R = visibleItems +    *)
(* effectivePre, for every slideCount >= 1, where effectivePre is         *)
(* preloadItems if slideCount >= visibleItems + 2 * preloadItems and      *)
(* max(0, floor((slideCount - visibleItems) / 2)) otherwise.              *)
C21_WrapWindowAnyCount ==
  (AfterFrame /\ shouldWrap(Self) /\ slideCount >= 1) =>
    LET pre == IF slideCount >= visibleItems + 2 * preloadItems
               THEN preloadItems
               ELSE Max(0, (slideCount - visibleItems) \div 2)
        L == -pre * Scale
        R == (visibleItems + pre) * Scale
    IN \A i \in SlideIdx : i < slideCount => (L <= rel[i] /\ rel[i] < R)

(* C21 amended: with L, R as stated, every slide's rel lies in [L, R)     *)
(* when slideCount <= R - L; when slideCount exceeds the window width a   *)
(* slide is in [L, R) if one of its congruent positions is, and otherwise *)
(* it is placed left of the window, in [R - slideCount, L).               *)
C21_WrapWindow ==
  (AfterFrame /\ shouldWrap(Self) /\ slideCount >= 1) =>
    LET pre == IF slideCount >= visibleItems + 2 * preloadItems
               THEN preloadItems
               ELSE Max(0, (slideCount - visibleItems) \div 2)
        L == -pre * Scale
        R == (visibleItems + pre) * Scale
        n == slideCount * Scale
    IN \A i \in SlideIdx : i < slideCount =>
         /\ rel[i] < R
         /\ n <= R - L => L <= rel[i]
         /\ rel[i] < L => (R - n <= rel[i] /\ R <= rel[i] + n)

C21_Witness ==
  /\ lastOp = "frame" /\ shouldWrap(Self)
  /\ slideCount = 3 /\ visibleItems = 2
  /\ ~IsInteger(current)
  /\ \E i \in SlideIdx : i < slideCount /\ rel[i] < 0 /\ rel[i] > -Scale

(* C22: in wrap mode no layout pass assigns two different slides the same *)
(* relative offset, whatever current, visibleItems, preloadItems and      *)
(* slideCount are.                                                        *)
C22_NoCollision ==
  \A i \in SlideIdx, j \in SlideIdx :
    (i # j /\ rel[i] # None /\ rel[j] # None) => rel[i] # rel[j]

C22_Witness ==
  /\ lastOp = "frame" /\ shouldWrap(Self)
  /\ slideCount = 3 /\ ~IsInteger(current) /\ current > Scale
  /\ \E i \in SlideIdx, j \in SlideIdx :
       /\ i < j /\ rel[i] # None /\ rel[j] # None
       /\ rel[i] > rel[j]

(* C23: after every layout pass in bounded mode every slide i, a slide    *)
(* added since the previous pass and a re-measured itemWidth included,    *)
(* has the applied x = i * itemWidth - offset with                        *)
(* offset = -clamp(current, maxScroll, 0) * itemWidth.                    *)
C23_BoundedPlacement ==
  [][(lastOp' \in {"frame", "frame0"} /\ rafRunning /\ ~shouldWrap(Self)) =>
       LET offset == -clamp(current', maxScroll') * itemWidth'
       IN \A i \in SlideIdx :
            i < slideCount' => lx'[i] = i * Scale * itemWidth' - offset]_vars

(* C24: a layout pass writes no slide transform whenever itemWidth <= 0   *)
(* or slideCount = 0.                                                     *)
C24_LayoutNoOp ==
  [][(lastOp' \in {"frame", "frame0"} /\ (itemWidth <= 0 \/ slideCount = 0)) =>
        UNCHANGED <<lx, lastAppliedX>>]_vars

(* C25: itemWidth > 0 in every reachable state, for every combination of  *)
(* host width, columns, slideWidth, gap and first-slide width.            *)
C25_ItemWidthPositive == itemWidth > 0

(* C26: a frame's damping never overshoots: the new current lies between  *)
(* the old current and the frame's target (it may stay at the old current *)
(* and may reach the target, never pass it), so |current - target| does   *)
(* not increase in a frame that leaves target unchanged.                  *)
C26_NoOvershoot ==
  [][(lastOp' \in {"frame", "frame0"} /\ rafRunning) =>
       /\ Min(current, target') <= current'
       /\ current' <= Max(current, target')
       /\ target' = target =>
            Abs(current' - target') <= Abs(current - target)]_vars

C26_Witness ==
  /\ lastOp = "frame" /\ rafRunning /\ ~dragging /\ ~snap
  /\ target = Scale /\ 0 < current /\ current < target
  /\ Abs(current - target) >= settleEpsilon

(* C27: at most one animation-frame callback of the instance is pending   *)
(* at any time, and one is pending exactly when rafRunning is true,       *)
(* after any interleaving of connect, disconnect, resize, pointerdown /   *)
(* pointerup, stepTo and frame callbacks.                                 *)
C27_OneFramePending ==
  LET pending == (IF rafLive THEN 1 ELSE 0) + strayFrames
  IN /\ pending <= 1
     /\ (pending = 1) <=> rafRunning

C27_Witness ==
  /\ lastOp = "connect" /\ hasUpdated /\ opsLeft < MaxOps
  /\ rafRunning /\ rafLive /\ strayFrames = 0
  /\ dragging

(* C28: in every reachable state dragging = true implies that the window  *)
(* pointermove / pointerup listeners are registered; in particular        *)
(* dragging does not stay true across a detach in mid-drag and a later    *)
(* re-attach.                                                             *)
C28_DragHasListeners == dragging => listeners

(* C29: in wrap mode with slideCount >= visibleItems + 1, after every     *)
(* layout pass and for every current, every point p of the viewport       *)
(* interval [0, visibleItems) is covered by a slide: some slide has       *)
(* rel <= p < rel + 1.  The slides' intervals are closed on the left, so  *)
(* an uncovered point exists only if 0 or the right end of some slide's   *)
(* interval is an uncovered point of the viewport; these are the points   *)
(* tested.                                                                *)
C29_WrapCoverage ==
  (AfterFrame /\ shouldWrap(Self) /\ slideCount >= visibleItems + 1) =>
    LET ends == {0} \cup {rel[i] + Scale : i \in 0 .. (slideCount - 1)}
    IN \A p \in ends :
         (0 <= p /\ p < visibleItems * Scale) =>
           \E i \in 0 .. (slideCount - 1) :
             rel[i] <= p /\ p < rel[i] + Scale

C29_Witness ==
  /\ lastOp = "frame" /\ shouldWrap(Self)
  /\ slideCount = 3 /\ visibleItems = 2 /\ preloadItems = 0
  /\ ~IsInteger(current)
  /\ \E i \in SlideIdx : i < slideCount /\ -Scale < rel[i] /\ rel[i] < 0
  /\ \E i \in SlideIdx : i < slideCount /\ Scale < rel[i] /\ rel[i] < 2 * Scale

(* C30: for every controlsMode in which the controls are rendered, a prev *)
(* control rendered enabled (not atStart) means that goToPrev changes     *)
(* round(target), a next control rendered enabled (not atEnd) means that  *)
(* goToNext changes round(target), and a control marked off means that    *)
(* its step leaves round(target) unchanged.                               *)
C30_ControlsAgree ==
  [][\A ctl \in BOOLEAN, mode \in ControlsModes :
       shouldShowControls(ctl, mode, Self) =>
         /\ lastOp' = "goToPrev" =>
              (~atStart(Self) <=> MathRound(target') # MathRound(target))
         /\ lastOp' = "goToNext" =>
              (~atEnd(Self) <=> MathRound(target') # MathRound(target))]_vars

(* C35: whenever the image count is > 0, 0 <= index <= total - 1, after   *)
(* any sequence of goTo, arrow keys, drag start / move / end and          *)
(* replacement of the images array by a shorter one.                      *)
C35_IndexInRange ==
  (tagName = "product-image-slider" /\ images > 0) =>
     (0 <= index /\ index <= images - 1)

(* C37: once openZoom has run the slider stays zoomed until a close       *)
(* action of the user (toggle, Escape, click outside the container,       *)
(* browser Back): the popstate of the component's own deferred            *)
(* history.back() never closes a zoom; and every pushed zoomOpen entry is *)
(* removed exactly once, so no more traversals are requested than there   *)
(* are zoomOpen entries.                                                  *)
C37_ZoomHistory ==
  [][(tagName = "product-image-slider" /\ variant = "wrap") =>
       /\ (zoomed /\ ~zoomed') =>
            /\ lastOp' \in {"onEnd", "Enter", "Escape", "click",
                            "onZoomButton", "popstate"}
            /\ ~(lastOp' = "popstate" /\ lastArg' = 1)
       /\ pendingBack' <= zoomEntries']_vars

\* C31: in every reachable state of the TypeWriterEl, 0 <= _pos <=
\* length(_full) and _display is the first _pos characters of _full,
\* whatever sequence of play, pause, reset, restart, connects and timer
\* ticks led there, with and without loop.
C31_PrefixInvariant ==
  tagName = "type-writer" =>
    /\ 0 <= pos /\ pos <= Len(full)
    /\ display = SubSeq(full, 1, pos)

\* play() was called again on a text of two or more characters that is
\* typed out: its tick runs with _pos already at the end
C31_Witness ==
  /\ tagName = "type-writer"
  /\ lastOp = "play"
  /\ Len(full) >= 2 /\ pos = Len(full) /\ display = full
  /\ ~playing /\ ~twLoop

\* C32: whenever the TypeWriterEl is connected and _playing is true between
\* events, exactly one tick timeout is pending, and never more than one
\* is pending, also after a disconnect and a re-connect while playing.
C32_NeverStalls ==
  tagName = "type-writer" =>
    /\ (twConnected /\ playing) => timer = "pending"
    /\ (IF timer = "pending" THEN 1 ELSE 0) + strayTicks <= 1

\* C33: with loop off and a non-empty text, once play() has started the
\* typing and no pause, reset or disconnect follows, the ticks eventually
\* reach _pos = length(_full) with _display = _full and _playing false,
\* and no timeout is pending then; with loop on, _playing turns false
\* only by pause() or reset(), never by a tick or another callback.
C33_Termination ==
  /\ (tagName = "type-writer" /\ ~twLoop /\ Len(full) > 0
        /\ playing /\ lastControl = "play")
       ~> \/ lastControl # "play"
          \/ /\ pos = Len(full) /\ display = full /\ ~playing
             /\ timer # "pending" /\ strayTicks = 0 /\ startTimer # "pending"
  /\ [](tagName = "type-writer" /\ ~playing
          => timer # "pending" /\ strayTicks = 0)
  /\ [][(tagName = "type-writer" /\ twLoop /\ playing /\ ~playing')
          => lastOp' \in {"pause", "reset"}]_vars

\* the last tick of a text of two or more characters has stopped the typing
C33_Witness ==
  /\ tagName = "type-writer" /\ ~twLoop
  /\ lastOp = "tick" /\ lastControl = "play"
  /\ Len(full) >= 2 /\ pos = Len(full) /\ display = full
  /\ ~playing /\ timer = "done" /\ strayTicks = 0

\* C34: after pause() or reset(), _display does not change and typing
\* does not resume until the host calls play() or restart(): neither the
\* start-delay timeout of schedulePlay nor the in-view observer's callback,
\* armed before the pause, nor a tick resumes it.
C34_PauseHolds ==
  [][(tagName = "type-writer" /\ lastControl = "pause"
        /\ lastOp' \in {"tick", "starttimer", "intersect"})
       => (display' = display /\ ~playing')]_vars

\* C36: getVisibleTrackRange, for 0 < trackslimit < total and
\* 0 <= index < total, returns start and end with
\* 0 <= start <= index <= end <= total - 1 and
\* end - start + 1 = trackslimit; for trackslimit <= 0 or
\* trackslimit >= total it returns start = 0 and end = total - 1.
C36_TrackRange ==
  [][(tagName = "product-image-slider" /\ lastOp' = "render") =>
       IF 0 < trackslimit /\ trackslimit < images
       THEN (0 <= index /\ index < images) =>
              /\ 0 <= rangeStart' /\ rangeStart' <= index
              /\ index <= rangeEnd' /\ rangeEnd' <= images - 1
              /\ rangeEnd' - rangeStart' + 1 = trackslimit
       ELSE rangeStart' = 0 /\ rangeEnd' = images - 1]_vars

\* an even limit with the index at the last image: the window was shortened
\* on the right and then shifted back from the end
C36_Witness ==
  /\ tagName = "product-image-slider"
  /\ lastOp = "render"
  /\ trackslimit = 4 /\ images = 5 /\ index = 4
  /\ rangeStart = 1 /\ rangeEnd = 4

\* C38: after destroyOnView() no element receives a further viewenter or
\* viewexit event or a change of its on-view-animated class, and a second
\* initOnView() leaves no element with an observer of the first one beside
\* its new one, the elements with a per-element observer
\* (--on-view-threshold, --on-view-margin) included.
C38_Teardown ==
  [][tagName = "on-view" =>
       /\ ~observer => lastOp' \notin {"viewenter", "viewexit", "classadd"}
       /\ \A e \in Elems : elementObservers'[e] <= 1]_vars

====
